---- MODULE Spec2Model ----
\* RBAC authorization engine with epoch-bound JWT sessions
\* (core/services/{token,auth,permissions}.py, core/middleware.py, api/*.py).
EXTENDS Integers, Sequences, FiniteSets, TLC

\* ---------------------------------------------------------------- bounds
\* Largest token_version a write may store (caps the epoch counter).
MaxEpoch == 2
\* Number of token lifetimes the clock may advance.
MaxTicks == 1
\* Number of distinct tokens issued in one run.
MaxTokens == 2
\* Number of request workers serving requests concurrently.
NumWorkers == 2
\* Number of users registered on top of the seeded ones.
MaxNewUsers == 1
\* Number of roles created on top of the seeded ones.
MaxNewRoles == 1
\* Largest number of permission flags set to true in one access-rule POST body.
MaxPostedFlags == 2

\* ------------------------------------------------------- program constants
\* timedelta(hours=24): the lifetime of a token, in hours.
TokenHours == 24
\* NULL of the nullable deleted_at column.
NULL == -1

Workers == 1..NumWorkers

\* The seven permission verbs, each an AccessRule column <verb>_permission.
Actions == {"read", "read_all", "create", "update", "update_all", "delete", "delete_all"}

\* ------------------------------------------------------------- state
VARIABLES
    users,       \* table users: id -> row (AutoField ids 1..n)
    tokens,      \* every token string generate_token has returned
    now,         \* timezone.now(), in hours
    req,         \* per worker: the request between middleware and view
    resp,        \* what the step just taken sent back: view, status and,
                 \* from a login, <<token>> (status 0: the step sent nothing)
    roles,       \* table roles: id -> name
    userRoles,   \* table user_roles: <<user id, role id>> -> number of rows with that pair
    rules,       \* table access_rules: <<role id, element id>> -> the rows with that
                 \* pair, each row the set of its true flags
    expectedEpoch,    \* history: per user, the epoch at registration plus one per
                      \* completed logout_user/soft_delete_user call
    revokedByLogout,  \* history: tokens issued before a completed logout of their user
    revokedByDelete,  \* history: tokens issued before a completed soft delete of their user
    deletedEmails     \* history: emails of the users soft_delete_user has completed for

vars == <<users, tokens, now, req, resp, roles, userRoles, rules,
          expectedEpoch, revokedByLogout, revokedByDelete, deletedEmails>>

sessionVars == <<users, tokens, now, req, expectedEpoch, revokedByLogout, revokedByDelete,
                 deletedEmails>>

rbacVars == <<roles, userRoles, rules>>

\* ------------------------------------------------------------- models.py
\* A freshly constructed User row: is_active defaults to True, token_version
\* to 0, deleted_at to NULL.
User(id, email, password_hash) ==
    [id |-> id, email |-> email, password_hash |-> password_hash,
     is_active |-> TRUE, token_version |-> 0, deleted_at |-> NULL]

\* bcrypt.hashpw / bcrypt.checkpw: an opaque one-way hash and its verifier.
hash_password(password) == <<"bcrypt", password>>

check_password(password, password_hash) == password_hash = hash_password(password)

\* business_elements seeded by seed_data: id -> name (no endpoint adds any).
elements == <<"products", "users", "roles", "access_rules">>

\* ------------------------------------------------------------- seed_data
SeedRoles == <<"admin", "manager", "user", "guest">>

SeedUsers ==
    <<User(1, "admin@example.com", hash_password("admin123")),
      User(2, "manager@example.com", hash_password("manager123")),
      User(3, "user1@example.com", hash_password("user123")),
      User(4, "user2@example.com", hash_password("user123")),
      User(5, "guest@example.com", hash_password("guest123"))>>

SeedUserRoles == {<<1, 1>>, <<2, 2>>, <<3, 3>>, <<4, 3>>, <<5, 4>>}

AdminFlags == {"read_all", "create", "update_all", "delete_all"}

SeedRules ==
    (<<1, 1>> :> AdminFlags) @@ (<<1, 2>> :> AdminFlags) @@
    (<<1, 3>> :> AdminFlags) @@ (<<1, 4>> :> AdminFlags) @@
    (<<2, 1>> :> {"read_all", "create", "update", "delete"}) @@
    (<<2, 2>> :> {"read_all", "read"}) @@
    (<<3, 1>> :> {"read", "create", "update", "delete"}) @@
    (<<4, 1>> :> {"read"})

\* ------------------------------------------------------------- token.py
JWT_SECRET_KEY == "server-secret"

\* HS256 over the claim set: an injective MAC of (key, claims).
HS256(key, user_id, token_version, exp, iat) == <<key, user_id, token_version, exp, iat>>

\* jwt.encode: three segments, the claims and their MAC.
jwt_encode(user_id, token_version, exp, iat, key) ==
    [segments |-> 3, user_id |-> user_id, token_version |-> token_version,
     exp |-> exp, iat |-> iat, sig |-> HS256(key, user_id, token_version, exp, iat)]

generate_token(user) ==
    jwt_encode(user.id, user.token_version, now + TokenHours, now, JWT_SECRET_KEY)

\* A decode that reads the claims without checking their MAC.
jwt_decode_ok_unverified(token, key) ==
    /\ token.segments = 3
    /\ now < token.exp

\* jwt.decode succeeds iff the token has three segments, its MAC is the one the
\* key gives for its claims, and exp has not been reached.
jwt_decode_ok(token, key) ==
    /\ token.segments = 3
    /\ token.sig = HS256(key, token.user_id, token.token_version, token.exp, token.iat)
    /\ now < token.exp

\* User.objects.get(id=user_id, is_active=True): <<row>> or <<>> (DoesNotExist).
get_active_by_id(user_id) ==
    IF user_id \in DOMAIN users /\ users[user_id].is_active
    THEN <<users[user_id]>> ELSE <<>>

\* Optional[User] as a sequence: <<>> is None, <<row>> the user.
verify_token(token) ==
    IF ~jwt_decode_ok(token, JWT_SECRET_KEY) THEN <<>>
    ELSE IF token.user_id = 0 THEN <<>>
    ELSE LET found == get_active_by_id(token.user_id) IN
         IF found = <<>> THEN <<>>
         ELSE IF found[1].token_version # token.token_version THEN <<>>
         ELSE found

\* ------------------------------------------------------------- middleware.py
\* A request's Authorization header: absent, or "<scheme> <token>".
NoHeader == [present |-> FALSE, scheme |-> "", token |-> <<>>]

Bearer(token) == [present |-> TRUE, scheme |-> "Bearer", token |-> <<token>>]

Basic(token) == [present |-> TRUE, scheme |-> "Basic", token |-> <<token>>]

\* JWTAuthMiddleware.__call__: request.user is None unless a Bearer header
\* carries a token verify_token accepts.
request_user(header) ==
    IF header.present /\ header.scheme = "Bearer"
    THEN verify_token(header.token[1])
    ELSE <<>>

\* ------------------------------------------------------------- tokens a client can send
\* A string that is no JWT at all.
Garbage == [segments |-> 1, user_id |-> 0, token_version |-> 0, exp |-> 0, iat |-> 0,
            sig |-> <<>>]

\* An issued token with one claim changed and the signature kept.
Tampered(t) ==
    {[t EXCEPT !.user_id = u] : u \in DOMAIN users \ {t.user_id}}
    \cup {[t EXCEPT !.token_version = v] : v \in (0..MaxEpoch) \ {t.token_version}}
    \cup {[t EXCEPT !.exp = t.exp + TokenHours], [t EXCEPT !.iat = t.iat + 1]}

\* A well-formed claim set signed with a key that is not the server's.
Forged == {jwt_encode(u, users[u].token_version, now + TokenHours, now, "attacker-key") :
              u \in DOMAIN users}

PresentedTokens == tokens \cup UNION {Tampered(t) : t \in tokens} \cup Forged \cup {Garbage}

Headers == {NoHeader} \cup {Bearer(t) : t \in PresentedTokens} \cup {Basic(t) : t \in tokens}

\* The headers the modelled clients send with a logout or delete request.
SentHeaders == {NoHeader, Bearer(Garbage)} \cup {Bearer(t) : t \in tokens}

\* ------------------------------------------------------------- the store
\* The unique constraint on users.email, for a write of `email` to row `id`.
email_taken(email, id) ==
    \E other \in DOMAIN users : other # id /\ users[other].email = email

\* The id the AutoField sequence gives the next inserted row.
next_id == 1 + Cardinality(DOMAIN users \ {0})

Idle == [pc |-> "idle", view |-> "", user |-> <<>>]

Response(view, status) == [view |-> view, status |-> status, token |-> <<>>]

NoResponse == Response("", 0)

\* ------------------------------------------------------------- auth.py
\* An optional key of the JSON body: <<>> when absent, <<value>> when given.
Given(data, key, default) == IF data[key] = <<>> THEN default ELSE data[key][1]

\* register_user(**data): User(**data) takes every model field the body names;
\* the fields it does not name keep their defaults.
register_row(data, id) ==
    [id |-> id, email |-> data.email, password_hash |-> hash_password(data.password),
     is_active |-> Given(data, "is_active", TRUE),
     token_version |-> Given(data, "token_version", 0),
     deleted_at |-> Given(data, "deleted_at", NULL)]

\* An UPDATE of the epoch with no WHERE clause.
save_without_where(user_id, row) ==
    [id \in DOMAIN users |->
        IF id = user_id THEN row
        ELSE [users[id] EXCEPT !.token_version = row.token_version]]

\* Model.save(): UPDATE users SET ... WHERE id = <the instance's pk>.
save(user_id, row) == [users EXCEPT ![user_id] = row]

\* logout_user: the row as written by save(update_fields=["token_version"]).
logout_user(stored, user) == [stored EXCEPT !.token_version = user.token_version + 1]

\* soft_delete_user: the row as written by save(), every field from the instance.
soft_delete_user(stored, user) ==
    [user EXCEPT !.is_active = FALSE, !.deleted_at = now,
                 !.token_version = user.token_version + 1]

\* login_user looking the user up by email alone, deactivated users included.
login_user_ignores_is_active(email, password) ==
    LET found == {id \in DOMAIN users : users[id].email = email} IN
    IF found = {} THEN <<>>
    ELSE LET user == users[CHOOSE id \in found : TRUE] IN
         IF ~check_password(password, user.password_hash) THEN <<>>
         ELSE <<generate_token(user)>>

\* login_user: <<token>> or <<>> (None).
login_user(email, password) ==
    LET found == {id \in DOMAIN users : users[id].email = email /\ users[id].is_active} IN
    IF found = {} THEN <<>>
    ELSE LET user == users[CHOOSE id \in found : TRUE] IN
         IF ~check_password(password, user.password_hash) THEN <<>>
         ELSE <<generate_token(user)>>

\* ------------------------------------------------------------- request inputs
\* Bodies of POST /auth/register/: email and password, and optionally further
\* model fields, which User(**data) accepts as well.
NoExtra == [id |-> <<>>, is_active |-> <<>>, token_version |-> <<>>, deleted_at |-> <<>>]

Profile(email, password) ==
    [email |-> email, password |-> password, id |-> NoExtra.id,
     is_active |-> NoExtra.is_active, token_version |-> NoExtra.token_version,
     deleted_at |-> NoExtra.deleted_at]

Profiles ==
    {Profile("new@example.com", "newpass"),
     Profile("guest@example.com", "newpass"),
     [Profile("guest@example.com", "newpass") EXCEPT !.id = <<5>>],
     [Profile("new@example.com", "newpass") EXCEPT !.id = <<0>>],
     [Profile("new@example.com", "newpass") EXCEPT !.token_version = <<1>>,
                                                   !.deleted_at = <<0>>]}

LoginEmails == {"guest@example.com", "new@example.com", "nobody@example.com"}

LoginPasswords == {"guest123", "newpass", "wrong"}

\* ------------------------------------------------------------- initial state
Init ==
    /\ users = SeedUsers
    /\ tokens = {}
    /\ now = 0
    /\ req = [w \in Workers |-> Idle]
    /\ resp = NoResponse
    /\ roles = SeedRoles
    /\ userRoles = [pair \in SeedUserRoles |-> 1]
    /\ rules = [k \in DOMAIN SeedRules |-> <<SeedRules[k]>>]
    /\ expectedEpoch = [id \in DOMAIN SeedUsers |-> 0]
    /\ revokedByLogout = {}
    /\ revokedByDelete = {}
    /\ deletedEmails = {}

\* ------------------------------------------------------------- auth_views.py
\* RegisterView.post: register_user(**data) and user.save(). With "id" in the
\* body, save() updates the row of that id when there is one and inserts a row
\* with that id otherwise; a duplicate email violates the unique constraint
\* (IntegrityError, status 500, nothing stored).
RegisterView(data) ==
    LET id == Given(data, "id", next_id)
        row == register_row(data, id)
    IN  /\ id \in DOMAIN users
           \/ Cardinality(DOMAIN users) < Len(SeedUsers) + MaxNewUsers
        /\ row.token_version <= MaxEpoch
        /\ IF email_taken(data.email, id)
           THEN /\ resp' = Response("register", 500)
                /\ UNCHANGED <<users, expectedEpoch>>
           ELSE /\ users' = (id :> row) @@ users
                /\ expectedEpoch' = (id :> row.token_version) @@ expectedEpoch
                /\ resp' = Response("register", 200)
        /\ UNCHANGED <<tokens, now, req, revokedByLogout, revokedByDelete, deletedEmails>>
        /\ UNCHANGED rbacVars

\* LoginView starting a new epoch of the user at every successful login.
LoginView_rotates_epoch(email, password) ==
    LET token == login_user(email, password) IN
    /\ IF token = <<>>
       THEN /\ resp' = Response("login", 401)
            /\ UNCHANGED <<tokens, users>>
       ELSE /\ token[1] \in tokens \/ Cardinality(tokens) < MaxTokens
            /\ token[1].token_version + 1 <= MaxEpoch
            /\ tokens' = tokens \cup {token[1]}
            /\ users' = [users EXCEPT ![token[1].user_id].token_version = @ + 1]
            /\ resp' = [Response("login", 200) EXCEPT !.token = token]
    /\ UNCHANGED <<now, req, expectedEpoch, revokedByLogout, revokedByDelete,
                   deletedEmails>>
    /\ UNCHANGED rbacVars

\* LoginView.post: a token, or 401 "invalid credentials".
LoginView(email, password) ==
    LET token == login_user(email, password) IN
    /\ IF token = <<>>
       THEN /\ resp' = Response("login", 401)
            /\ UNCHANGED tokens
       ELSE /\ token[1] \in tokens \/ Cardinality(tokens) < MaxTokens
            /\ tokens' = tokens \cup {token[1]}
            /\ resp' = [Response("login", 200) EXCEPT !.token = token]
    /\ UNCHANGED <<users, now, req, expectedEpoch, revokedByLogout, revokedByDelete,
                   deletedEmails>>
    /\ UNCHANGED rbacVars

\* JWTAuthMiddleware.__call__ ahead of LogoutView / DeleteAccountView: the user
\* row is loaded here and written by the view later.
Middleware(w, view, header) ==
    /\ req[w].pc = "idle"
    /\ req' = [req EXCEPT ![w] = [pc |-> "view", view |-> view,
                                  user |-> request_user(header)]]
    /\ resp' = NoResponse
    /\ UNCHANGED <<users, tokens, now, expectedEpoch, revokedByLogout,
                   revokedByDelete, deletedEmails>>
    /\ UNCHANGED rbacVars

IssuedFor(id) == {t \in tokens : t.user_id = id}

\* LogoutView.post
LogoutView(w) ==
    /\ req[w].pc = "view" /\ req[w].view = "logout"
    /\ req' = [req EXCEPT ![w] = Idle]
    /\ IF req[w].user = <<>>
       THEN /\ resp' = Response("logout", 401)
            /\ UNCHANGED <<users, expectedEpoch, revokedByLogout>>
       ELSE LET user == req[w].user[1] IN
            /\ user.token_version + 1 <= MaxEpoch
            /\ users' = save(user.id, logout_user(users[user.id], user))
            /\ expectedEpoch' = [expectedEpoch EXCEPT ![user.id] = @ + 1]
            /\ revokedByLogout' = revokedByLogout \cup IssuedFor(user.id)
            /\ resp' = Response("logout", 200)
    /\ UNCHANGED <<tokens, now, revokedByDelete, deletedEmails>>
    /\ UNCHANGED rbacVars

\* DeleteAccountView.delete: save() writes every column of the loaded instance,
\* so its email is checked against the unique constraint again.
DeleteAccountView(w) ==
    /\ req[w].pc = "view" /\ req[w].view = "delete"
    /\ req' = [req EXCEPT ![w] = Idle]
    /\ IF req[w].user = <<>>
       THEN /\ resp' = Response("delete", 401)
            /\ UNCHANGED <<users, expectedEpoch, revokedByDelete, deletedEmails>>
       ELSE LET user == req[w].user[1] IN
            /\ user.token_version + 1 <= MaxEpoch
            /\ IF email_taken(user.email, user.id)
               THEN /\ resp' = Response("delete", 500)
                    /\ UNCHANGED <<users, expectedEpoch, revokedByDelete, deletedEmails>>
               ELSE /\ users' = save(user.id, soft_delete_user(users[user.id], user))
                    /\ expectedEpoch' = [expectedEpoch EXCEPT ![user.id] = @ + 1]
                    /\ revokedByDelete' = revokedByDelete \cup IssuedFor(user.id)
                    /\ deletedEmails' = deletedEmails \cup {user.email}
                    /\ resp' = Response("delete", 200)
    /\ UNCHANGED <<tokens, now, revokedByLogout>>
    /\ UNCHANGED rbacVars

\* The clock advances by one token lifetime.
Tick ==
    /\ now < MaxTicks * TokenHours
    /\ now' = now + TokenHours
    /\ resp' = NoResponse
    /\ UNCHANGED <<users, tokens, req, expectedEpoch, revokedByLogout,
                   revokedByDelete, deletedEmails>>
    /\ UNCHANGED rbacVars

\* ------------------------------------------------------------- permissions.py
\* BusinessElement.objects.get(name=element_name): the ids with that name.
element_ids(element_name) == {e \in DOMAIN elements : elements[e] = element_name}

\* rules_from without the join on user_roles: the rules of every role.
RECURSIVE rules_from_any_role(_, _, _)
rules_from_any_role(role, user_id, element) ==
    IF role > Len(roles) THEN <<>>
    ELSE IF <<role, element>> \in DOMAIN rules
         THEN rules[<<role, element>>] \o rules_from_any_role(role + 1, user_id, element)
         ELSE rules_from_any_role(role + 1, user_id, element)

\* AccessRule.objects.filter(role__userrole__user=user, element=element): the
\* rows (each the set of its true flags), here in the order of their role ids.
RECURSIVE rules_from(_, _, _)
rules_from(role, user_id, element) ==
    IF role > Len(roles) THEN <<>>
    ELSE IF <<user_id, role>> \in DOMAIN userRoles /\ <<role, element>> \in DOMAIN rules
         THEN rules[<<role, element>>] \o rules_from(role + 1, user_id, element)
         ELSE rules_from(role + 1, user_id, element)

\* rule_grants with a scoped flag of the owner granting the _all action too.
rule_grants_scoped_grants_all(rule, action, is_owner) ==
    \/ action = "create" /\ "create" \in rule
    \/ action \in {"read_all", "update_all", "delete_all"} /\ action \in rule
    \/ action = "read_all" /\ "read" \in rule /\ is_owner
    \/ action = "read" /\ ("read_all" \in rule \/ ("read" \in rule /\ is_owner))
    \/ action = "update" /\ ("update_all" \in rule \/ ("update" \in rule /\ is_owner))
    \/ action = "delete" /\ ("delete_all" \in rule \/ ("delete" \in rule /\ is_owner))

\* rule_grants with the _all flag no longer granting the scoped action.
rule_grants_no_subsumption(rule, action, is_owner) ==
    \/ action = "create" /\ "create" \in rule
    \/ action \in {"read_all", "update_all", "delete_all"} /\ action \in rule
    \/ action \in {"read", "update", "delete"} /\ action \in rule /\ is_owner

\* One pass of the body of `for rule in rules`: TRUE when it returns True.
rule_grants(rule, action, is_owner) ==
    IF action = "read_all" /\ "read_all" \in rule THEN TRUE
    ELSE IF action = "update_all" /\ "update_all" \in rule THEN TRUE
    ELSE IF action = "delete_all" /\ "delete_all" \in rule THEN TRUE
    ELSE IF action = "create" /\ "create" \in rule THEN TRUE
    ELSE IF action = "read"
         THEN "read_all" \in rule \/ ("read" \in rule /\ is_owner)
    ELSE IF action = "update"
         THEN "update_all" \in rule \/ ("update" \in rule /\ is_owner)
    ELSE IF action = "delete"
         THEN "delete_all" \in rule \/ ("delete" \in rule /\ is_owner)
    ELSE FALSE

\* scan_rules granting only when every rule of the user grants.
scan_rules_every_rule(rs, i, action, is_owner) ==
    /\ i <= Len(rs)
    /\ \A j \in i..Len(rs) : rule_grants(rs[j], action, is_owner)

\* scan_rules with the first rule of the queryset deciding alone.
scan_rules_first_rule_decides(rs, i, action, is_owner) ==
    /\ i <= Len(rs)
    /\ rule_grants(rs[i], action, is_owner)

\* The loop over the rules, returning at the first rule that grants.
RECURSIVE scan_rules(_, _, _, _)
scan_rules(rs, i, action, is_owner) ==
    IF i > Len(rs) THEN FALSE
    ELSE IF rule_grants(rs[i], action, is_owner) THEN TRUE
    ELSE scan_rules(rs, i + 1, action, is_owner)

\* has_access with is_owner computed without the `owner_id is not None` test.
has_access_none_is_owner(user, element_name, action, owner_id) ==
    IF element_ids(element_name) = {} THEN FALSE
    ELSE LET element == CHOOSE e \in element_ids(element_name) : TRUE
             is_owner == owner_id = <<>> \/ owner_id[1] = user.id
         IN  scan_rules(rules_from(1, user.id, element), 1, action, is_owner)

\* has_access falling back to the rules of every element when the name is unknown.
has_access_unknown_element_open(user, element_name, action, owner_id) ==
    LET is_owner == owner_id # <<>> /\ owner_id[1] = user.id
        named == IF element_ids(element_name) = {} THEN DOMAIN elements
                 ELSE element_ids(element_name)
    IN  \E element \in named :
            scan_rules(rules_from(1, user.id, element), 1, action, is_owner)

\* has_access(user=, element_name=, action=, owner_id=); owner_id is <<>> for
\* None and <<id>> otherwise.
has_access(user, element_name, action, owner_id) ==
    IF element_ids(element_name) = {} THEN FALSE
    ELSE LET element == CHOOSE e \in element_ids(element_name) : TRUE
             is_owner == owner_id # <<>> /\ owner_id[1] = user.id
         IN  scan_rules(rules_from(1, user.id, element), 1, action, is_owner)

\* AccessRule.objects.filter(role__userrole__user=user).select_related("element",
\* "role"): the rows of the user's roles on every element, each with its element,
\* here in the order of role id and then element id.
RECURSIVE user_rules(_, _, _)
user_rules(role, element, user_id) ==
    IF role > Len(roles) THEN <<>>
    ELSE IF element > Len(elements) THEN user_rules(role + 1, 1, user_id)
    ELSE IF <<user_id, role>> \in DOMAIN userRoles /\ <<role, element>> \in DOMAIN rules
         THEN [i \in DOMAIN rules[<<role, element>>] |->
                  [element |-> element, flags |-> rules[<<role, element>>][i]]]
              \o user_rules(role, element + 1, user_id)
         ELSE user_rules(role, element + 1, user_id)

\* group_rules with each rule overwriting the flags of its element.
group_rules_last_rule_wins(rs, i, permissions) ==
    [element_name \in {elements[rs[j].element] : j \in i..Len(rs)} \cup DOMAIN permissions |->
        IF \E j \in i..Len(rs) : elements[rs[j].element] = element_name
        THEN LET last == CHOOSE j \in i..Len(rs) :
                             /\ elements[rs[j].element] = element_name
                             /\ \A k \in i..Len(rs) :
                                    elements[rs[k].element] = element_name => k <= j
             IN  [a \in Actions |-> a \in rs[last].flags]
        ELSE permissions[element_name]]

\* The loop of get_user_permissions: an entry of seven False flags the first
\* time an element name is met, then each flag OR-ed with the rule's.
RECURSIVE group_rules(_, _, _)
group_rules(rs, i, permissions) ==
    IF i > Len(rs) THEN permissions
    ELSE LET element_name == elements[rs[i].element]
             started == IF element_name \in DOMAIN permissions THEN permissions
                        ELSE (element_name :> [a \in Actions |-> FALSE]) @@ permissions
             element_perms == [a \in Actions |-> started[element_name][a] \/ a \in rs[i].flags]
         IN  group_rules(rs, i + 1, [started EXCEPT ![element_name] = element_perms])

\* get_user_permissions(user): element name -> flag -> bool.
get_user_permissions(user) == group_rules(user_rules(1, 1, user.id), 1, <<>>)

\* ------------------------------------------------------------- mock_views.py, admin_views.py
\* The start every protected view shares: 401 without request.user, 403 when
\* has_access refuses; 0 when the view goes on.
gate(header, element_name, action) ==
    LET user == request_user(header) IN
    IF user = <<>> THEN 401
    ELSE IF ~has_access(user[1], element_name, action, <<>>) THEN 403
    ELSE 0

\* A view that only reads: nothing but the response changes.
ReadOnlyView(view, status) ==
    /\ resp' = Response(view, status)
    /\ UNCHANGED sessionVars
    /\ UNCHANGED rbacVars

\* A call of get_user_permissions(users[id]).
GetUserPermissionsCall(id) ==
    /\ DOMAIN get_user_permissions(users[id]) \subseteq {elements[e] : e \in DOMAIN elements}
    /\ ReadOnlyView("get_user_permissions", 200)

\* HasAccessCall giving a user that holds no role the guest role before it answers.
HasAccessCall_assigns_guest_role(id, element_name, action, owner_id) ==
    /\ resp' = Response("has_access",
                        IF has_access(users[id], element_name, action, owner_id)
                        THEN 200 ELSE 403)
    /\ userRoles' = IF \E r \in DOMAIN roles : <<id, r>> \in DOMAIN userRoles
                    THEN userRoles ELSE (<<id, 4>> :> 1) @@ userRoles
    /\ UNCHANGED <<roles, rules>>
    /\ UNCHANGED sessionVars

\* A call of has_access by any caller, answered as the views answer it: has_access
\* runs two queries and writes nothing.
HasAccessCall(id, element_name, action, owner_id) ==
    ReadOnlyView("has_access",
                 IF has_access(users[id], element_name, action, owner_id) THEN 200 ELSE 403)

\* settings.MIDDLEWARE: CsrfViewMiddleware.process_view runs ahead of every view
\* and no view is csrf_exempt. A POST or DELETE request that carries no CSRF
\* cookie and token is answered 403 by the middleware, whatever its
\* Authorization header, and the view is not called. The view actions of this
\* module are the requests that pass this check.
CsrfRejected(header) == ReadOnlyView("csrf", 403)

\* MockProductsView.get passing the caller's id as the owner id.
MockProductsView_owner_is_caller(header) ==
    LET user == request_user(header) IN
    ReadOnlyView("products",
                 IF user = <<>> THEN 401
                 ELSE IF ~has_access(user[1], "products", "read", <<user[1].id>>) THEN 403
                 ELSE 200)

\* MockProductsView.get
MockProductsView(header) ==
    LET denied == gate(header, "products", "read") IN
    ReadOnlyView("products", IF denied # 0 THEN denied ELSE 200)

\* RoleListView.get
RoleListGet(header) ==
    LET denied == gate(header, "roles", "read_all") IN
    ReadOnlyView("roles", IF denied # 0 THEN denied ELSE 200)

\* AccessRuleView.get
AccessRuleGet(header) ==
    LET denied == gate(header, "access_rules", "read_all") IN
    ReadOnlyView("access_rules", IF denied # 0 THEN denied ELSE 200)

\* RoleListView.post: Role.objects.create(name=...); a duplicate name raises
\* and is answered 400.
RoleListPost(header, name) ==
    LET denied == gate(header, "roles", "create") IN
    /\ IF denied # 0
       THEN /\ resp' = Response("roles", denied)
            /\ UNCHANGED roles
       ELSE IF \E r \in DOMAIN roles : roles[r] = name
       THEN /\ resp' = Response("roles", 400)
            /\ UNCHANGED roles
       ELSE /\ Len(roles) < Len(SeedRoles) + MaxNewRoles
            /\ roles' = Append(roles, name)
            /\ resp' = Response("roles", 200)
    /\ UNCHANGED <<userRoles, rules>>
    /\ UNCHANGED sessionVars

\* The flags update_or_create stores: data.get(<flag>, False) for each of the
\* seven; `flags` is the set of flags the body gives as true.
posted_flags(flags) == {a \in Actions : a \in flags}

\* AccessRule.objects.get(role=, element=): the number of rows found.
access_rules_get(role_id, element_id) ==
    IF <<role_id, element_id>> \in DOMAIN rules THEN Len(rules[<<role_id, element_id>>])
    ELSE 0

\* update_or_create adding the posted true flags to those the row has.
access_rules_upsert_keeps_flags(role_id, element_id, row) ==
    IF access_rules_get(role_id, element_id) = 0
    THEN (<<role_id, element_id>> :> <<row>>) @@ rules
    ELSE [rules EXCEPT ![<<role_id, element_id>>][1] = @ \cup row]

\* update_or_create inserting a row whether or not the pair has one.
access_rules_upsert_always_creates(role_id, element_id, row) ==
    IF access_rules_get(role_id, element_id) = 0
    THEN (<<role_id, element_id>> :> <<row>>) @@ rules
    ELSE [rules EXCEPT ![<<role_id, element_id>>] = Append(@, row)]

\* update_or_create(role=, element=, defaults=): the row get() returns is
\* written with the defaults; without a row, one is created from them.
access_rules_upsert(role_id, element_id, row) ==
    IF access_rules_get(role_id, element_id) = 0
    THEN (<<role_id, element_id>> :> <<row>>) @@ rules
    ELSE [rules EXCEPT ![<<role_id, element_id>>][1] = row]

\* AccessRuleView.post: update_or_create on (role, element); an unknown role
\* or element id raises and is answered 400, and so does get() finding more
\* than one row.
AccessRulePost(header, role_id, element_id, flags) ==
    LET denied == gate(header, "access_rules", "create") IN
    /\ IF denied # 0
       THEN /\ resp' = Response("access_rules", denied)
            /\ UNCHANGED rules
       ELSE IF role_id \notin DOMAIN roles \/ element_id \notin DOMAIN elements
       THEN /\ resp' = Response("access_rules", 400)
            /\ UNCHANGED rules
       ELSE IF access_rules_get(role_id, element_id) > 1
       THEN /\ resp' = Response("access_rules", 400)
            /\ UNCHANGED rules
       ELSE /\ rules' = access_rules_upsert(role_id, element_id, posted_flags(flags))
            /\ resp' = Response("access_rules", 200)
    /\ UNCHANGED <<roles, userRoles>>
    /\ UNCHANGED sessionVars

\* UserRole.objects.get(user=, role=): TRUE when a row is found.
user_roles_get(user_id, role_id) == <<user_id, role_id>> \in DOMAIN userRoles

\* The table after one more row (user, role) has been inserted.
user_roles_insert(user_id, role_id) ==
    IF <<user_id, role_id>> \in DOMAIN userRoles
    THEN [userRoles EXCEPT ![<<user_id, role_id>>] = @ + 1]
    ELSE (<<user_id, role_id>> :> 1) @@ userRoles

\* user_roles without its unique_together constraint.
user_roles_no_constraint(user_id, role_id) == FALSE

\* unique_together = ("user", "role"): TRUE when an INSERT of the pair is refused.
user_roles_unique_violated(user_id, role_id) == <<user_id, role_id>> \in DOMAIN userRoles

\* AssignRoleView.post up to the SELECT of get_or_create: the gate, the lookups
\* of user and role, and get(); when get() finds no row the request goes on to
\* create(). get() raises on more than one row (answered 400).
AssignRoleGet(w, header, user_id, role_id) ==
    LET denied == gate(header, "users", "update_all") IN
    /\ req[w].pc = "idle"
    /\ IF denied # 0
       THEN /\ resp' = Response("assign_role", denied)
            /\ UNCHANGED req
       ELSE IF user_id \notin DOMAIN users \/ role_id \notin DOMAIN roles
       THEN /\ resp' = Response("assign_role", 400)
            /\ UNCHANGED req
       ELSE IF user_roles_get(user_id, role_id)
       THEN /\ resp' = Response("assign_role",
                                IF userRoles[<<user_id, role_id>>] > 1 THEN 400 ELSE 200)
            /\ UNCHANGED req
       ELSE /\ req' = [req EXCEPT ![w] = [pc |-> "create", view |-> "assign_role",
                                          user |-> <<users[user_id]>>, role |-> role_id]]
            /\ resp' = NoResponse
    /\ UNCHANGED <<users, tokens, now, expectedEpoch, revokedByLogout, revokedByDelete,
                   deletedEmails>>
    /\ UNCHANGED rbacVars

\* get_or_create after DoesNotExist: create(); when the INSERT is refused by the
\* unique constraint (IntegrityError) it calls get() again and returns that row.
AssignRoleCreate(w) ==
    /\ req[w].pc = "create"
    /\ LET user_id == req[w].user[1].id
           role_id == req[w].role
       IN  userRoles' = IF user_roles_unique_violated(user_id, role_id) THEN userRoles
                        ELSE user_roles_insert(user_id, role_id)
    /\ resp' = Response("assign_role", 200)
    /\ req' = [req EXCEPT ![w] = Idle]
    /\ UNCHANGED <<users, tokens, now, expectedEpoch, revokedByLogout, revokedByDelete,
                   deletedEmails>>
    /\ UNCHANGED <<roles, rules>>

\* AssignRoleView.post: UserRole.objects.get_or_create(user, role); an unknown
\* user or role id raises and is answered 400.
AssignRoleView(header, user_id, role_id) ==
    LET denied == gate(header, "users", "update_all") IN
    /\ IF denied # 0
       THEN /\ resp' = Response("assign_role", denied)
            /\ UNCHANGED userRoles
       ELSE IF user_id \notin DOMAIN users \/ role_id \notin DOMAIN roles
       THEN /\ resp' = Response("assign_role", 400)
            /\ UNCHANGED userRoles
       ELSE /\ userRoles' = IF user_roles_get(user_id, role_id) THEN userRoles
                            ELSE user_roles_insert(user_id, role_id)
            /\ resp' = Response("assign_role", 200)
    /\ UNCHANGED <<roles, rules>>
    /\ UNCHANGED sessionVars

Register == \E data \in Profiles : RegisterView(data)

Login == \E email \in LoginEmails, password \in LoginPasswords : LoginView(email, password)

Request == \E w \in Workers, view \in {"logout", "delete"}, header \in SentHeaders :
               Middleware(w, view, header)

Logout == \E w \in Workers : LogoutView(w)

DeleteAccount == \E w \in Workers : DeleteAccountView(w)

Next == Register \/ Login \/ Request \/ Logout \/ DeleteAccount \/ Tick

Spec == Init /\ [][Next]_vars

\* The session requests of the users that exist, with no registration.
RaceNext == Login \/ Request \/ Logout \/ DeleteAccount \/ Tick

RaceSpec == Init /\ [][RaceNext]_vars

\* A registration with email and password only.
Signup == RegisterView(Profile("new@example.com", "newpass"))

\* The session requests served one at a time, by one worker.
SeqRequest == \E view \in {"logout", "delete"}, header \in SentHeaders :
                  Middleware(1, view, header)

SeqLogout == LogoutView(1)

SeqDeleteAccount == DeleteAccountView(1)

SeqNext == Signup \/ Login \/ SeqRequest \/ SeqLogout \/ SeqDeleteAccount \/ Tick

SeqSpec == Init /\ [][SeqNext]_vars

\* ------------------------------------------------------------- the RBAC requests
\* Bodies of the administrative POSTs.
PostedNames == {"auditor", "admin"}

PostedFlagSets == {S \in SUBSET Actions : Cardinality(S) <= MaxPostedFlags}

\* role_id, element_id and true flags: every flag set for the created role on
\* products, and one body each with an unknown role id and element id.
PostedRules ==
    {[role_id |-> 5, element_id |-> 1, flags |-> S] : S \in PostedFlagSets}
    \cup {[role_id |-> 9, element_id |-> 1, flags |-> {"read"}],
          [role_id |-> 5, element_id |-> 7, flags |-> {"read"}]}

\* The headers the modelled clients send with these requests.
RbacHeaders == {NoHeader} \cup {Bearer(t) : t \in tokens}

AssignedUserIds == {5, 99}

AssignedRoleIds == {1, 5}

AdminLogin == LoginView("admin@example.com", "admin123")

GuestLogin == LoginView("guest@example.com", "guest123")

Products == \E header \in RbacHeaders : MockProductsView(header)

ListRoles == \E header \in RbacHeaders : RoleListGet(header)

ListRules == \E header \in RbacHeaders : AccessRuleGet(header)

CreateRole == \E header \in RbacHeaders, name \in PostedNames : RoleListPost(header, name)

\* The body is read only once the request has passed the gate: a refused
\* request is sent with one body.
PostRule == \E header \in RbacHeaders :
                \E data \in IF gate(header, "access_rules", "create") = 0
                             THEN PostedRules
                             ELSE {[role_id |-> 5, element_id |-> 1, flags |-> {}]} :
                    AccessRulePost(header, data.role_id, data.element_id, data.flags)

AssignRole == \E header \in RbacHeaders, user_id \in AssignedUserIds,
                 role_id \in AssignedRoleIds : AssignRoleView(header, user_id, role_id)

RbacNext == AdminLogin \/ GuestLogin \/ Products \/ ListRoles \/ ListRules
            \/ CreateRole \/ PostRule \/ AssignRole

RbacSpec == Init /\ [][RbacNext]_vars

\* The administrative requests together with sign-ups (a new user holds no
\* role) and direct calls of has_access.
CalledElements == {"products", "orders"}

CalledActions == {"read", "create", "purge"}

\* The users has_access is called for: the guest user and the signed-up ones.
CalledUsers == DOMAIN users \ {1, 2, 3, 4}

Permissions == \E id \in CalledUsers : GetUserPermissionsCall(id)

Authorize == \E id \in CalledUsers, element_name \in CalledElements,
                action \in CalledActions :
                 \E owner_id \in {<<>>, <<id>>} :
                     HasAccessCall(id, element_name, action, owner_id)

AccessNext == AdminLogin \/ CreateRole \/ PostRule \/ AssignRole \/ Signup \/ Authorize
              \/ Permissions

AccessSpec == Init /\ [][AccessNext]_vars

\* Every protected endpoint: the RBAC requests, logout and delete served by one
\* worker, and POST and DELETE requests sent without a CSRF token.
CsrfReject == \E header \in RbacHeaders : CsrfRejected(header)

BoundaryNext == RbacNext \/ SeqRequest \/ SeqLogout \/ SeqDeleteAccount \/ CsrfReject

BoundarySpec == Init /\ [][BoundaryNext]_vars

\* Concurrent assign-role requests: get_or_create is a SELECT and then an INSERT.
AssignGet == \E w \in Workers, header \in RbacHeaders, user_id \in AssignedUserIds,
                role_id \in AssignedRoleIds : AssignRoleGet(w, header, user_id, role_id)

AssignCreate == \E w \in Workers : AssignRoleCreate(w)

AssignNext == AdminLogin \/ GuestLogin \/ CreateRole \/ AssignGet \/ AssignCreate

AssignSpec == Init /\ [][AssignNext]_vars

\* The access-rule requests of an administrator.
RuleNext == AdminLogin \/ CreateRole \/ PostRule \/ ListRules

RuleSpec == Init /\ [][RuleNext]_vars

\* ============================================================= claims
\* The passwords a client may try at login: the modelled ones and every stored one.
TriedPasswords == LoginPasswords \cup {"admin123"}

\* C1: after a completed Logout(user) every token issued for that user before
\* it is denied by Verify, and the token a later Login returns is accepted.
C1_LogoutRevokesAll ==
    /\ \A t \in revokedByLogout : verify_token(t) = <<>>
    /\ (resp.view = "login" /\ resp.status = 200) => verify_token(resp.token[1]) # <<>>

\* C2: no epoch increment is lost: the stored epoch of every user is its epoch
\* at registration plus the number of completed Logout/SoftDelete calls, and
\* no token issued before one of those calls completed is still accepted.
C2_NoLostIncrement ==
    /\ \A id \in DOMAIN users : users[id].token_version = expectedEpoch[id]
    /\ \A t \in revokedByLogout \cup revokedByDelete : verify_token(t) = <<>>

\* C3: a token never goes back to valid: an issued token that Verify denies is
\* denied after every step.
C3_NeverValidAgain ==
    [][\A t \in tokens : verify_token(t) = <<>> => (verify_token(t))' = <<>>]_vars

\* C4: after a completed SoftDelete(user), in every later state every token
\* issued for that user before it is denied by Verify and Login with that
\* user's email is denied whatever the password.
C4_SoftDeleteRevokes ==
    /\ \A t \in revokedByDelete : verify_token(t) = <<>>
    /\ \A e \in deletedEmails : \A p \in TriedPasswords \cup {"newpass"} :
           login_user(e, p) = <<>>

\* What C5 says Verify returns: the user with the claim's user_id when the
\* token is well-formed and signed by the server, not yet expired, that user
\* is stored and active and its epoch equals the claim's; deny otherwise.
C5_Reference(t) ==
    IF /\ t.segments = 3
       /\ t.sig = HS256(JWT_SECRET_KEY, t.user_id, t.token_version, t.exp, t.iat)
       /\ now < t.exp
       /\ t.user_id \in DOMAIN users
       /\ users[t.user_id].is_active
       /\ users[t.user_id].token_version = t.token_version
    THEN <<users[t.user_id]>>
    ELSE <<>>

\* C5: Verify(token) returns a user exactly when the token is well-formed,
\* correctly signed and unexpired and names a stored, active user whose epoch
\* equals the token's; the user returned is that one.
C5_VerifyIffAllChecks == \A t \in PresentedTokens : verify_token(t) = C5_Reference(t)

\* C6: for every active user, Verify(Issue(user)) with nothing in between
\* returns that same user.
C6_RoundTrip ==
    \A id \in DOMAIN users :
        users[id].is_active => verify_token(generate_token(users[id])) = <<users[id]>>

\* C7: every stored epoch starts at 0 and never decreases.
C7_EpochMonotonic ==
    [][\A id \in DOMAIN users' :
           IF id \in DOMAIN users
           THEN users'[id].token_version >= users[id].token_version
           ELSE users'[id].token_version = 0]_vars

\* ------------------------------------------------------------- Authorize
\* The arguments Authorize is evaluated on.
ElementNames == {elements[e] : e \in DOMAIN elements} \cup {"orders"}

ActionNames == Actions \cup {"purge"}

\* The owner ids tried for user `id`: none, the user's own, and two others.
OwnerIds(id) == {<<>>, <<id>>, <<id + 1>>, <<999>>}

Scoped == {"read", "update", "delete"}

AllOf(action) == IF action = "read" THEN "read_all"
                 ELSE IF action = "update" THEN "update_all" ELSE "delete_all"

\* The rows of access_rules with the pair `k`.
Rows(k) == {rules[k][i] : i \in DOMAIN rules[k]}

\* The rules of element `element_name` whose role user `id` holds.
RulesOf(id, element_name) ==
    UNION {Rows(k) : k \in {k \in DOMAIN rules :
                                /\ <<id, k[1]>> \in DOMAIN userRoles
                                /\ k[2] \in element_ids(element_name)}}

\* What C8 says Authorize returns.
C8_Reference(id, element_name, action, owner_id) ==
    /\ element_ids(element_name) # {}
    /\ \E rule \in RulesOf(id, element_name) :
           \/ action = "create" /\ "create" \in rule
           \/ action \in {"read_all", "update_all", "delete_all"} /\ action \in rule
           \/ /\ action \in Scoped
              /\ \/ AllOf(action) \in rule
                 \/ action \in rule /\ owner_id = <<id>>

\* C8: Authorize is false for an unknown element and otherwise the OR, over the
\* rules of the user's roles on the element, of: create for create, the _all
\* flag for an _all action, _all or (scoped and ownerID = user.id) for read,
\* update and delete, and false for any other action.
C8_AuthorizeIsReference ==
    \A id \in DOMAIN users, e \in ElementNames, a \in ActionNames :
        \A o \in OwnerIds(id) :
        has_access(users[id], e, a, o) = C8_Reference(id, e, a, o)

\* Some role that user `id` holds has a rule on element `e` with flag `a` and
\* without the matching _all flag.
HoldsScopedOnly(id, e, a) ==
    \E r \in DOMAIN roles :
        /\ <<id, r>> \in DOMAIN userRoles
        /\ <<r, e>> \in DOMAIN rules
        /\ \E rule \in Rows(<<r, e>>) : a \in rule /\ AllOf(a) \notin rule

\* C9 as stated: whenever a role the user holds has a rule granting only the
\* scoped action, the user is authorized iff ownerID = user.id.
C9_ScopedOnlyIffOwner ==
    \A id \in DOMAIN users, e \in DOMAIN elements, a \in Scoped :
        \A o \in OwnerIds(id) :
        HoldsScopedOnly(id, e, a) =>
            (has_access(users[id], elements[e], a, o) <=> o = <<id>>)

\* C9 amended: whenever a role the user holds has a rule granting only the
\* scoped action and no rule of the user's roles on the element grants the
\* matching _all action, the user is authorized iff ownerID = user.id.
C9_ScopedOnlyIffOwnerNoAll ==
    \A id \in DOMAIN users, e \in DOMAIN elements, a \in Scoped :
        \A o \in OwnerIds(id) :
        (/\ HoldsScopedOnly(id, e, a)
         /\ \A rule \in RulesOf(id, elements[e]) : AllOf(a) \notin rule)
        => (has_access(users[id], elements[e], a, o) <=> o = <<id>>)

\* C10: whenever a role the user holds has a rule granting <action>_all, the
\* user is authorized for <action> for every ownerID, null included.
C10_AllSubsumesScoped ==
    \A id \in DOMAIN users, e \in DOMAIN elements, a \in Scoped :
        \A o \in OwnerIds(id) :
        (\E r \in DOMAIN roles :
            /\ <<id, r>> \in DOMAIN userRoles
            /\ <<r, e>> \in DOMAIN rules
            /\ \E rule \in Rows(<<r, e>>) : AllOf(a) \in rule)
        => has_access(users[id], elements[e], a, o)

\* The guest user holds the created role, whose posted rule on products grants
\* update (scoped) and read_all: update is granted for the own id only, read
\* for every owner, nothing on an unknown element.
C8_Witness ==
    /\ <<5, 5>> \in DOMAIN userRoles
    /\ <<5, 1>> \in DOMAIN rules
    /\ rules[<<5, 1>>] = <<{"update", "read_all"}>>
    /\ has_access(users[5], "products", "update", <<5>>)
    /\ ~has_access(users[5], "products", "update", <<1>>)
    /\ has_access(users[5], "products", "read", <<>>)
    /\ ~has_access(users[5], "orders", "read", <<5>>)

\* The guest user holds two roles, guest (products: read only) and the created
\* role (products: create only): read is granted for the own id and refused
\* for another id and for no id.
C9_Witness ==
    /\ {<<5, 4>>, <<5, 5>>} \subseteq DOMAIN userRoles
    /\ <<5, 1>> \in DOMAIN rules
    /\ rules[<<5, 1>>] = <<{"create"}>>
    /\ HoldsScopedOnly(5, 1, "read")
    /\ has_access(users[5], "products", "read", <<5>>)
    /\ ~has_access(users[5], "products", "read", <<999>>)
    /\ ~has_access(users[5], "products", "read", <<>>)

\* The guest user has been assigned the admin role (products: delete_all):
\* delete is granted with no owner id and with another user's id.
C10_Witness ==
    /\ <<5, 1>> \in DOMAIN userRoles
    /\ resp = Response("assign_role", 200)
    /\ "delete_all" \in rules[<<1, 1>>][1]
    /\ has_access(users[5], "products", "delete", <<>>)
    /\ has_access(users[5], "products", "delete", <<1>>)

\* C11: role union is monotonic: when a step assigns a further role to a user
\* and leaves the rules unchanged, every Authorize call that returned true
\* before the step returns true after it.
C11_RoleUnionMonotonic ==
    [][(/\ userRoles' # userRoles
        /\ DOMAIN userRoles \subseteq DOMAIN userRoles'
        /\ rules' = rules)
       => \A id \in DOMAIN users, e \in ElementNames, a \in ActionNames :
              \A o \in OwnerIds(id) :
              has_access(users[id], e, a, o) => (has_access(users[id], e, a, o))']_vars

\* The guest user, holding the guest role (products: read), has just been
\* assigned the created role, which grants no read on products: read of an
\* own product is still granted.
C11_Witness ==
    /\ resp = Response("assign_role", 200)
    /\ {<<5, 4>>, <<5, 5>>} \subseteq DOMAIN userRoles
    /\ <<5, 1>> \in DOMAIN rules
    /\ Scoped \cap rules[<<5, 1>>][1] = {}
    /\ "read_all" \notin rules[<<5, 1>>][1]
    /\ has_access(users[5], "products", "read", <<5>>)

\* Names no BusinessElement row has.
UnknownElementNames == {"orders", "Products", ""}

\* C12: for a name no BusinessElement has, Authorize returns false for every
\* user, action and ownerID, whatever roles and rules the user has.
C12_UnknownElementDenied ==
    \A id \in DOMAIN users, e \in UnknownElementNames, a \in ActionNames :
        \A o \in OwnerIds(id) :
        /\ element_ids(e) = {}
        /\ ~has_access(users[id], e, a, o)

\* The guest user holds the admin role and the created role, which has a rule:
\* everything is granted on products and nothing on the unknown name.
C12_Witness ==
    /\ {<<5, 1>>, <<5, 5>>} \subseteq DOMAIN userRoles
    /\ <<5, 1>> \in DOMAIN rules
    /\ has_access(users[5], "products", "read_all", <<>>)
    /\ has_access(users[5], "products", "create", <<>>)
    /\ ~has_access(users[5], "orders", "read_all", <<>>)
    /\ ~has_access(users[5], "orders", "create", <<5>>)

\* C13: for every user with no assigned role, Authorize returns false for
\* every element name, every action and every ownerID.
C13_NoRolesDenied ==
    \A id \in DOMAIN users :
        (\A r \in DOMAIN roles : <<id, r>> \notin DOMAIN userRoles)
        => \A e \in ElementNames, a \in ActionNames, o \in OwnerIds(id) :
               ~has_access(users[id], e, a, o)

\* A user has signed up and holds no role while other users' roles grant
\* access: nothing is granted to the new user, not even on an own object.
C13_Witness ==
    /\ 6 \in DOMAIN users
    /\ \A r \in DOMAIN roles : <<6, r>> \notin DOMAIN userRoles
    /\ <<5, 1>> \in DOMAIN rules
    /\ has_access(users[5], "products", "read", <<5>>)
    /\ ~has_access(users[6], "products", "read", <<6>>)
    /\ ~has_access(users[6], "products", "create", <<>>)

\* C14: Authorize has no side effects: a call, whatever its arguments and
\* result, leaves users, roles, user-role assignments and access rules
\* unchanged (the elements never change), and its result is a boolean.
C14_AuthorizeNoSideEffects ==
    [][resp'.view = "has_access"
       => /\ UNCHANGED <<users, roles, userRoles, rules>>
          /\ resp'.status \in {200, 403}
          /\ \A id \in CalledUsers, e \in CalledElements, a \in CalledActions :
                 has_access(users[id], e, a, <<id>>) \in BOOLEAN]_vars

\* has_access has just been called for the signed-up user, who holds no role,
\* and refused, in a store where roles have been created and rules posted.
C14_Witness ==
    /\ resp = Response("has_access", 403)
    /\ 6 \in DOMAIN users
    /\ <<5, 1>> \in DOMAIN rules
    /\ \A r \in DOMAIN roles : <<6, r>> \notin DOMAIN userRoles
    /\ users[6].token_version = 0

\* Every order in which the database may return the rows `rs`.
Reorderings(rs) == {[i \in 1..Len(rs) |-> rs[f[i]]] : f \in Permutations(1..Len(rs))}

\* C15: the result of Authorize does not depend on the order in which the
\* user's matching rules are scanned: for every permutation of the rules the
\* short-circuiting loop returns the same boolean.
C15_ScanOrderIrrelevant ==
    \A id \in DOMAIN users, e \in DOMAIN elements :
        LET rs == rules_from(1, id, e) IN
        \A p \in Reorderings(rs), a \in ActionNames, is_owner \in BOOLEAN :
            scan_rules(p, 1, a, is_owner) = scan_rules(rs, 1, a, is_owner)

\* The guest user holds two roles with a rule on products, guest and the created
\* role, and only the rule of the created role grants create: the scan grants
\* it whether that rule comes first or last.
C15_Witness ==
    /\ {<<5, 4>>, <<5, 5>>} \subseteq DOMAIN userRoles
    /\ <<5, 1>> \notin DOMAIN userRoles
    /\ <<5, 1>> \in DOMAIN rules
    /\ "create" \in rules[<<5, 1>>][1]
    /\ "create" \notin rules[<<4, 1>>][1]
    /\ Cardinality(Reorderings(rules_from(1, 5, 1))) = 2
    /\ \A p \in Reorderings(rules_from(1, 5, 1)) : scan_rules(p, 1, "create", FALSE)
    /\ has_access(users[5], "products", "create", <<>>)

\* ------------------------------------------------------------- Register
\* The rows a step has inserted or written.
Persisted == {id \in DOMAIN users' : id \notin DOMAIN users \/ users'[id] # users[id]}

\* C16: every user persisted by Register has epoch 0, is active and has no
\* deletion timestamp, for every profile the caller passes.
C16_RegisterDefaults ==
    [][(resp'.view = "register" /\ resp'.status = 200)
       => \A id \in Persisted :
              /\ users'[id].token_version = 0
              /\ users'[id].is_active
              /\ users'[id].deleted_at = NULL]_vars

\* C17: Register with an email that already belongs to a stored user fails and
\* leaves the store unchanged: a Register that fails changes no user, one that
\* succeeds writes no existing user and stores no email a user already had, and
\* afterwards no two users share an email.
C17_DuplicateEmailRejected ==
    [][resp'.view = "register"
       => /\ resp'.status # 200 => users' = users
          /\ resp'.status = 200
             => \A id \in Persisted :
                    /\ id \notin DOMAIN users
                    /\ \A other \in DOMAIN users : users[other].email # users'[id].email
          /\ \A a, b \in DOMAIN users' :
                 a # b => users'[a].email # users'[b].email]_vars

\* ------------------------------------------------------------- Login
\* The emails tried at login: the modelled ones and every stored one.
TriedEmails == LoginEmails \cup {users[id].email : id \in DOMAIN users}

\* C18: Login returns a token if and only if an active user with that email
\* exists and the password verifies against its hash, and every refused Login,
\* for an unknown or deactivated email as for a wrong password, is answered
\* with the same single deny value.
C18_LoginIffCredentials ==
    /\ \A email \in TriedEmails, password \in TriedPasswords :
           login_user(email, password) # <<>>
           <=> \E id \in DOMAIN users :
                   /\ users[id].email = email
                   /\ users[id].is_active
                   /\ check_password(password, users[id].password_hash)
    /\ resp.view = "login"
       => \/ resp = Response("login", 401)
          \/ resp.status = 200 /\ resp.token # <<>> /\ resp.token[1] \in tokens

\* Login has just been refused while the guest account is deactivated: the
\* right password of the deactivated account, a wrong password of an active
\* account and an unknown email are all refused.
C18_Witness ==
    /\ resp = Response("login", 401)
    /\ ~users[5].is_active
    /\ login_user("guest@example.com", "guest123") = <<>>
    /\ login_user("admin@example.com", "wrong") = <<>>
    /\ login_user("nobody@example.com", "guest123") = <<>>
    /\ login_user("admin@example.com", "admin123") # <<>>

\* C19: Login does not mutate the user: a successful or failed Login leaves
\* every stored field of every user unchanged, so every token that was valid
\* before the Login is valid after it.
C19_LoginDoesNotMutate ==
    [][resp'.view = "login"
       => /\ users' = users
          /\ \A t \in tokens : verify_token(t) # <<>> => (verify_token(t))' # <<>>]_vars

\* A Login has just succeeded while a token issued by an earlier Login is
\* valid: both tokens are valid at the same time.
C19_Witness ==
    /\ resp.view = "login" /\ resp.status = 200
    /\ verify_token(resp.token[1]) # <<>>
    /\ \E t \in tokens \ {resp.token[1]} : verify_token(t) # <<>>

\* ------------------------------------------------------------- Logout
\* C20: a completed Logout(user) increases the stored epoch of that user by
\* exactly one and changes nothing else: no other field and no other user.
C20_LogoutOnlyBumpsEpoch ==
    [][(resp'.view = "logout" /\ resp'.status = 200)
       => \E id \in DOMAIN users :
              users' = [users EXCEPT ![id].token_version = @ + 1]]_vars

\* ------------------------------------------------------------- SoftDelete
\* C21: in every reachable state, for every stored user, deleted_at being set
\* implies the user is not active.
C21_DeletedImpliesInactive ==
    \A id \in DOMAIN users : users[id].deleted_at # NULL => ~users[id].is_active

\* C22: a completed SoftDelete stores active=false, deleted_at=now and epoch+1
\* together: the step leaves no state in which only some of the three changes
\* are stored (the user inactive with the old epoch, for example).
C22_SoftDeleteAllThree ==
    [][(resp'.view = "delete" /\ resp'.status = 200)
       => \E id \in DOMAIN users :
              /\ ~users'[id].is_active
              /\ users'[id].deleted_at = now
              /\ users'[id].token_version = users[id].token_version + 1
              /\ \A other \in DOMAIN users \ {id} : users'[other] = users[other]]_vars

\* ------------------------------------------------------------- the boundary
\* What C23 says of a request with Authorization header `header` to an
\* endpoint guarded by (element_name, action): 401 when Verify gives no user,
\* 403 when Authorize refuses, and in both the stores are unchanged.
Boundary(header, element_name, action) ==
    LET user == request_user(header) IN
    IF user = <<>>
    THEN resp'.status = 401 /\ UNCHANGED <<users, roles, userRoles, rules>>
    ELSE ~has_access(user[1], element_name, action, <<>>)
         => resp'.status = 403 /\ UNCHANGED <<users, roles, userRoles, rules>>

\* The part of C23 on the requests that reach their view.
C23_ViewsRejectAtBoundary ==
    /\ \A w \in Workers :
           (req[w].pc = "view" /\ req'[w].pc = "idle" /\ req[w].user = <<>>)
           => resp'.status = 401 /\ UNCHANGED <<users, roles, userRoles, rules>>
    /\ \A header \in RbacHeaders :
           /\ MockProductsView(header) => Boundary(header, "products", "read")
           /\ RoleListGet(header) => Boundary(header, "roles", "read_all")
           /\ AccessRuleGet(header) => Boundary(header, "access_rules", "read_all")
           /\ \A name \in PostedNames :
                  RoleListPost(header, name) => Boundary(header, "roles", "create")
           /\ \A data \in PostedRules :
                  AccessRulePost(header, data.role_id, data.element_id, data.flags)
                  => Boundary(header, "access_rules", "create")
           /\ \A user_id \in AssignedUserIds, role_id \in AssignedRoleIds :
                  AssignRoleView(header, user_id, role_id)
                  => Boundary(header, "users", "update_all")

\* C23: every protected endpoint answers a request with no token, or with a
\* token Verify denies, 401 before any permission check, and a request with a
\* valid token that Authorize refuses 403; in both rejections users, roles,
\* user-role assignments and access rules are unchanged.
C23_UnauthorizedThenForbidden ==
    [][/\ C23_ViewsRejectAtBoundary
       /\ \A header \in RbacHeaders :
              (CsrfRejected(header) /\ request_user(header) = <<>>)
              => resp'.status = 401]_vars

\* C23 for the requests that pass the CSRF check.
C23_PastCsrf == [][C23_ViewsRejectAtBoundary]_vars

\* ------------------------------------------------------------- the tables
\* C24: a user holds the same role at most once: after every sequence and
\* interleaving of assign-role requests there is at most one UserRole row per
\* (user, role), and a repeated assignment succeeds and leaves the assignments
\* unchanged.
C24_UserRoleAtMostOnce ==
    [][/\ \A pair \in DOMAIN userRoles' : userRoles'[pair] = 1
       /\ \A w \in Workers, header \in RbacHeaders, user_id \in AssignedUserIds,
             role_id \in AssignedRoleIds :
              (/\ AssignRoleGet(w, header, user_id, role_id)
               /\ gate(header, "users", "update_all") = 0
               /\ user_roles_get(user_id, role_id))
              => resp'.status = 200 /\ userRoles' = userRoles
       /\ \A w \in Workers :
              (AssignRoleCreate(w) /\ user_roles_get(req[w].user[1].id, req[w].role))
              => resp'.status = 200 /\ userRoles' = userRoles]_vars

\* Two requests assigning the admin role to the guest user both found no row;
\* the first has inserted its row and been answered, the second is about to
\* insert the same pair.
C24_Witness ==
    /\ resp = Response("assign_role", 200)
    /\ <<5, 1>> \in DOMAIN userRoles
    /\ userRoles[<<5, 1>>] = 1
    /\ \E w \in Workers :
           /\ req[w].pc = "create"
           /\ req[w].user[1].id = 5
           /\ req[w].role = 1

\* C25: a role has at most one AccessRule per element: after every sequence of
\* access-rule POSTs there is one row per (role, element), and a POST that is
\* accepted leaves the row of its pair with exactly the flags the request gave
\* as true, every other flag false, and every other pair as it was.
C25_OneRulePerPair ==
    [][/\ \A k \in DOMAIN rules' : Len(rules'[k]) = 1
       /\ resp' = Response("access_rules", 200)
          => \A data \in PostedRules :
                 (\E header \in RbacHeaders :
                      /\ gate(header, "access_rules", "create") = 0
                      /\ data.role_id \in DOMAIN roles
                      /\ data.element_id \in DOMAIN elements
                      /\ AccessRulePost(header, data.role_id, data.element_id, data.flags))
                 => LET k == <<data.role_id, data.element_id>> IN
                    /\ k \in DOMAIN rules'
                    /\ \A a \in Actions : a \in rules'[k][1] <=> a \in data.flags
                    /\ \A other \in DOMAIN rules \ {k} :
                           other \in DOMAIN rules' /\ rules'[other] = rules[other]
                    /\ DOMAIN rules' = DOMAIN rules \cup {k}]_vars

\* An access-rule POST for the created role on products has just been
\* accepted with delete as its only true flag: the pair has one row, with
\* that flag alone.
C25_Witness ==
    /\ resp = Response("access_rules", 200)
    /\ <<5, 1>> \in DOMAIN rules
    /\ Len(rules[<<5, 1>>]) = 1
    /\ rules[<<5, 1>>][1] = {"delete"}
    /\ \A k \in DOMAIN SeedRules : rules[k] = <<SeedRules[k]>>

\* C26: tampering with a claim of an issued token invalidates it: an issued
\* token with its user_id, epoch, issued_at or expires_at changed and its
\* signature kept is denied by verify_token, and every token verify_token
\* accepts is one generate_token returned.
C26_TamperedDenied ==
    /\ \A t \in tokens : \A x \in Tampered(t) : verify_token(x) = <<>>
    /\ \A x \in PresentedTokens : verify_token(x) # <<>> => x \in tokens

\* An issued token is accepted; the same token re-addressed to the active
\* administrator is denied, and so is a token revoked by a logout whose epoch
\* claim was raised to the user's current epoch.
C26_Witness ==
    /\ \E t \in tokens :
           /\ t.user_id # 1
           /\ verify_token(t) # <<>>
           /\ users[1].is_active /\ users[1].token_version = t.token_version
           /\ verify_token([t EXCEPT !.user_id = 1]) = <<>>
    /\ \E t \in tokens :
           /\ verify_token(t) = <<>>
           /\ now < t.exp
           /\ users[t.user_id].is_active
           /\ users[t.user_id].token_version = t.token_version + 1
           /\ verify_token([t EXCEPT !.token_version = t.token_version + 1]) = <<>>

\* C27: revocation is per user: a logout or soft delete carried out for user A
\* changes no stored field of any other user B and does not change what
\* verify_token returns for any token issued for B.
C27_RevocationPerUser ==
    [][\A w \in Workers :
           (req[w].pc = "view" /\ req'[w] = Idle /\ req[w].user # <<>>)
           => \A b \in DOMAIN users \ {req[w].user[1].id} :
                  /\ b \in DOMAIN users'
                  /\ users'[b] = users[b]
                  /\ \A t \in IssuedFor(b) : (verify_token(t))' = verify_token(t)]_vars

\* A logout or soft delete has just been carried out for one user while a
\* token issued for another user, whose epoch is still 0, verifies.
C27_Witness ==
    /\ resp \in {Response("logout", 200), Response("delete", 200)}
    /\ \E a \in DOMAIN users, t \in tokens :
           /\ users[a].token_version = 1
           /\ t.user_id # a
           /\ users[t.user_id].token_version = 0
           /\ verify_token(t) # <<>>

\* C28: soft deletion is permanent through the exposed operations: once
\* soft_delete_user has completed for a user, after every sequence and
\* interleaving of register, login, logout and delete requests the user is
\* inactive, no token issued for the user verifies, and a registration with
\* the user's email is not accepted.
C28_SoftDeletePermanent ==
    [][/\ \A id \in DOMAIN users' :
              users'[id].email \in deletedEmails'
              => /\ ~users'[id].is_active
                 /\ \A t \in IssuedFor(id)' : (verify_token(t))' = <<>>
       /\ \A data \in Profiles :
              (data.email \in deletedEmails /\ RegisterView(data))
              => resp'.status \notin {200, 201}]_vars

\* C29: get_user_permissions agrees with has_access: for every user the map has
\* an entry exactly for the elements on which the user has a rule, each flag is
\* the OR of that flag over the user's rules for the element, and for every
\* such element has_access on an _all action or create equals the flag, and
\* has_access on read, update or delete with the user as owner equals the
\* scoped flag OR the _all flag.
C29_PermissionsAgree ==
    \A id \in DOMAIN users :
        LET perms == get_user_permissions(users[id]) IN
        /\ DOMAIN perms = {e \in ElementNames : RulesOf(id, e) # {}}
        /\ \A e \in DOMAIN perms :
               /\ DOMAIN perms[e] = Actions
               /\ \A a \in Actions :
                      perms[e][a] <=> \E rule \in RulesOf(id, e) : a \in rule
               /\ \A a \in {"read_all", "update_all", "delete_all", "create"} :
                      \A o \in OwnerIds(id) :
                          has_access(users[id], e, a, o) = perms[e][a]
               /\ \A a \in Scoped :
                      has_access(users[id], e, a, <<id>>)
                          = (perms[e][a] \/ perms[e][AllOf(a)])

\* The guest user holds two roles with different rules on products: the map
\* has the flags of both, more than either rule alone, and no entry for the
\* elements the user has no rule on.
C29_Witness ==
    /\ <<5, 4>> \in DOMAIN userRoles /\ <<5, 5>> \in DOMAIN userRoles
    /\ <<5, 1>> \in DOMAIN rules
    /\ rules[<<5, 1>>] = <<{"create", "delete_all"}>>
    /\ DOMAIN get_user_permissions(users[5]) = {"products"}
    /\ \A a \in Actions :
           get_user_permissions(users[5])["products"][a]
               <=> a \in {"read", "create", "delete_all"}

\* C30: the products endpoint evaluates action read with no owner id: an
\* authenticated user is sent the product data if and only if some rule of one
\* of the user's roles grants read_all on products, and a user whose rules on
\* products grant only the scoped read flag is answered Forbidden.
C30_ProductsNeedReadAll ==
    [][resp'.view = "products"
       => \A header \in RbacHeaders :
              (MockProductsView(header) /\ request_user(header) # <<>>)
              => LET id == request_user(header)[1].id IN
                 /\ resp'.status \in {200, 403}
                 /\ resp'.status = 200
                        <=> \E rule \in RulesOf(id, "products") : "read_all" \in rule
                 /\ (/\ \E rule \in RulesOf(id, "products") : "read" \in rule
                     /\ \A rule \in RulesOf(id, "products") : "read_all" \notin rule)
                    => resp'.status = 403]_vars

\* The guest user, logged in and holding the seeded guest role and a created
\* role whose rules on products both grant read without read_all, has just
\* been answered Forbidden by the products endpoint.
C30_Witness ==
    /\ resp = Response("products", 403)
    /\ \E t \in tokens : t.user_id = 5 /\ verify_token(t) # <<>>
    /\ <<5, 4>> \in DOMAIN userRoles /\ <<5, 5>> \in DOMAIN userRoles
    /\ <<5, 1>> \in DOMAIN rules
    /\ rules[<<5, 1>>] = <<{"read", "create"}>>
    /\ rules[<<4, 1>>] = <<{"read"}>>

====
